---- MODULE Spec2Model ----
(***************************************************************************)
(* Model of the elevation_data repository:                                 *)
(*   convert_one_tile.py  - cols_for_lat, convert_tile (raw tile -> GeoTIFF)*)
(*   terrain_service.py   - haversine_m, tile, profile (HTTP handlers)     *)
(*                                                                         *)
(* Geographic coordinates are exact rationals counted in units of          *)
(* 1/UnitsPerDegree degree (half a raster row), so that every cell edge of *)
(* every column count is an integer; the floating point rounding of the    *)
(* code is not modelled.                                                   *)
(***************************************************************************)
EXTENDS Integers, Sequences, FiniteSets, TLC

VARIABLES
    lat_arg,      \* cols_for_lat: the argument of the last call
    cols_ret,     \* cols_for_lat: what the last call returned
    raw,          \* convert_tile: the raw file at raw_path
    outDir,       \* convert_tile: whether out_tif.parent exists
    outTif,       \* convert_tile: the file at out_tif
    convResult,   \* convert_tile: outcome of the run on `raw`
    tiff,         \* service: the GeoTIFF at TIFF_PATH
    response      \* service: the response of the request being answered

vars == <<lat_arg, cols_ret, raw, outDir, outTif, convResult, tiff, response>>

(***************************************************************************)
(* Program constants                                                       *)
(***************************************************************************)
NODATA == -9999
ROWS == 3600
TIFF_LAT == 42
TIFF_LON == 45
TILESIZE == 256

UnitsPerDegree == 2 * ROWS

(***************************************************************************)
(* Bounds of the model                                                     *)
(***************************************************************************)
MaxLat == 95          \* cols_for_lat is called on -MaxLat .. MaxLat
MaxSlack == 4         \* raw files are up to MaxSlack bytes short or long
MaxPoints == 4        \* profile requests with at most MaxPoints points
ProbesPerAxis == 6    \* tile pixels inspected per axis

\* Values are kept comparable: an optional value is a record with a flag, an
\* optional number (a JSON null or a float) is a sequence of length 0 or 1.
NotCalled == [called |-> FALSE]
NotRun == [run |-> FALSE]
NoFile == [exists |-> FALSE]
NoResponse == [kind |-> "none"]
Null == <<>>
Some(e) == <<e>>

Max(a, b) == IF a >= b THEN a ELSE b
Abs(x) == IF x < 0 THEN -x ELSE x

(***************************************************************************)
(* convert_one_tile.py                                                     *)
(***************************************************************************)

\* mutant of cols_for_lat: the abs() is forgotten
cols_for_lat_no_abs(lat_ll) ==
    LET a == lat_ll IN
    IF a < 50 THEN 3600
    ELSE IF a < 60 THEN 2400
    ELSE IF a < 70 THEN 1800
    ELSE IF a < 80 THEN 1200
    ELSE 720

cols_for_lat(lat_ll) ==
    LET a == Abs(lat_ll) IN
    IF a < 50 THEN 3600
    ELSE IF a < 60 THEN 2400
    ELSE IF a < 70 THEN 1800
    ELSE IF a < 80 THEN 1200
    ELSE 720

\* np.fromfile(raw_path, dtype="<i2").size: whole 2-byte items of the file;
\* a trailing odd byte is not an item.
fromfile_size(nbytes) == nbytes \div 2

\* Sample i of a raw file's content.  A content is described by two runs,
\* [0, split) and [split, ...), each a stripe pattern of period 2.
fromfile_item(data, i) ==
    IF i < data.split THEN data.north[(i % 2) + 1] ELSE data.south[(i % 2) + 1]

\* mutant of size_mismatch: only a short file is refused
size_mismatch_short_only(size, expected) == size < expected

size_mismatch(size, expected) == size # expected

\* mutant of upper_left_lat: the lower-left latitude is taken as the origin
upper_left_lat_lower(lat_ll) == lat_ll

upper_left_lat(lat_ll) == lat_ll + 1

\* from_origin(ul_lon, ul_lat, px_w, px_h); a pixel size 1.0 / k is the
\* rational [num |-> 1, den |-> k].
from_origin(west, north, xsize, ysize) ==
    [ul_lon |-> west, ul_lat |-> north, px_w |-> xsize, px_h |-> ysize]

\* convert_tile up to the profile dictionary: parse the name, read, check the
\* count, reshape, georeference.  raw_path is [lat, lon, nbytes, data], the
\* name "<lat>_<lon>" being the pair (lat, lon).
decode(raw_path) ==
    LET lat_ll == raw_path.lat
        lon_ll == raw_path.lon
        cols == cols_for_lat(lat_ll)
        size == fromfile_size(raw_path.nbytes)
        expected == ROWS * cols
    IN  IF size_mismatch(size, expected)
        THEN [run |-> TRUE, raised |-> TRUE,
              error |-> [type |-> "ValueError", path |-> <<lat_ll, lon_ll>>,
                         size |-> size, expected |-> expected,
                         rows |-> ROWS, cols |-> cols]]
        ELSE [run |-> TRUE, raised |-> FALSE,
              tif |-> [exists |-> TRUE, height |-> ROWS, width |-> cols, nodata |-> NODATA,
                       transform |-> from_origin(lon_ll, upper_left_lat(lat_ll),
                                                 [num |-> 1, den |-> cols],
                                                 [num |-> 1, den |-> ROWS]),
                       data |-> raw_path.data]]

\* mutant of convert_tile: the output directory is made before the count check
convert_tile_mkdir_first(raw_path, dirExists, oldTif) ==
    LET d == decode(raw_path) IN
    IF d.raised
    THEN [result |-> d, dir |-> TRUE, tif |-> oldTif]
    ELSE [result |-> d, dir |-> TRUE, tif |-> d.tif]

\* convert_tile(raw_path, out_tif): the outcome, and the output directory and
\* output file it leaves behind.
convert_tile(raw_path, dirExists, oldTif) ==
    LET d == decode(raw_path) IN
    IF d.raised
    THEN [result |-> d, dir |-> dirExists, tif |-> oldTif]
    ELSE [result |-> d, dir |-> TRUE, tif |-> d.tif]

\* data.reshape((ROWS, cols)) as written to band 1: cell (row, col) of a file
reshape_cell(tif, row, col) == fromfile_item(tif.data, row * tif.width + col)

(***************************************************************************)
(* terrain_service.py                                                      *)
(***************************************************************************)

\* Endpoints a profile request is drawn from, in units of 1/UnitsPerDegree
\* degree: 41.9, 42.25 and 42.75 degrees of latitude, 44.9, 45.25 and 45.75
\* degrees of longitude, the inner ones moved to a cell centre, and one more
\* longitude a column further east.
EndLats == {301680, 304201, 307801}
EndLons == {323280, 325801, 325803, 329401}
Steps == {0, -60, 60, 20000}

\* <<lower latitude, higher latitude, |difference of longitude|, metres>>:
\* floor(haversine_m(lat1, lon1, lat2, lon2)) as the function computes it on
\* the endpoints above.
HaversineTable ==
    {
     <<301680, 301680, 0, 0>>, <<301680, 301680, 2, 22>>, <<301680, 301680, 2521, 28978>>,
     <<301680, 301680, 2523, 29001>>, <<301680, 301680, 3598, 41358>>, <<301680, 301680, 3600, 41381>>,
     <<301680, 301680, 6121, 70360>>, <<301680, 304201, 0, 38933>>, <<301680, 304201, 2, 38933>>,
     <<301680, 304201, 2521, 48486>>, <<301680, 304201, 2523, 48500>>, <<301680, 304201, 3598, 56718>>,
     <<301680, 304201, 3600, 56735>>, <<301680, 304201, 6121, 80244>>, <<301680, 307801, 0, 94531>>,
     <<301680, 307801, 2, 94531>>, <<301680, 307801, 2521, 98816>>, <<301680, 307801, 2523, 98822>>,
     <<301680, 307801, 3598, 103071>>, <<301680, 307801, 3600, 103080>>, <<301680, 307801, 6121, 117560>>,
     <<304201, 304201, 0, 0>>, <<304201, 304201, 2, 22>>, <<304201, 304201, 2521, 28819>>,
     <<304201, 304201, 2523, 28842>>, <<304201, 304201, 3598, 41131>>, <<304201, 304201, 3600, 41154>>,
     <<304201, 304201, 6121, 69973>>, <<304201, 307801, 0, 55597>>, <<304201, 307801, 2, 55597>>,
     <<304201, 307801, 2521, 62570>>, <<304201, 307801, 2523, 62580>>, <<304201, 307801, 3598, 69060>>,
     <<304201, 307801, 3600, 69074>>, <<304201, 307801, 6121, 89153>>, <<307801, 307801, 0, 0>>,
     <<307801, 307801, 2, 22>>, <<307801, 307801, 2521, 28589>>, <<307801, 307801, 2523, 28612>>,
     <<307801, 307801, 3598, 40803>>, <<307801, 307801, 3600, 40826>>, <<307801, 307801, 6121, 69415>>
    }
\* haversine_m, in whole metres (rounded down; 0 is exactly 0.0)
haversine_m(lat1, lon1, lat2, lon2) ==
    LET lo == IF lat1 <= lat2 THEN lat1 ELSE lat2
        hi == Max(lat1, lat2)
        dlon == Abs(lon2 - lon1)
    IN  (CHOOSE t \in HaversineTable : t[1] = lo /\ t[2] = hi /\ t[3] = dlon)[4]

\* Python's a // b for b # 0
floordiv(a, b) == IF b > 0 THEN a \div b ELSE (-a) \div (-b)

\* n = max(2, int(total // step_m) + 1), for step_m # 0.  The total being
\* rounded down does not change n: for a step > 0 the two floors agree, for a
\* step < 0 the quotient is at most 0 either way.
point_count(total, step_m) == Max(2, floordiv(total, step_m) + 1)

\* mutant of linspace: endpoint=False
linspace_open(start, stop, n) ==
    [i \in 1 .. n |-> start * (n - 1) + ((i - 1) * (stop - start) * (n - 1)) \div n]

\* np.linspace(start, stop, n) for n >= 2: the numerators of the n values over
\* the common denominator n - 1; the last one is stop.
linspace(start, stop, n) ==
    [i \in 1 .. n |-> start * (n - 1) + (i - 1) * (stop - start)]

\* mutant of elev_of: a falsy elevation is taken for a missing one
elev_of_falsy(e) == IF e = 0 \/ e = NODATA THEN Null ELSE Some(e)

\* None if e == NODATA else e
elev_of(e) == IF e = NODATA THEN Null ELSE Some(e)

\* The size of one cell in model units; exact for every column count.
CellSpan(px) == (UnitsPerDegree * px.num) \div px.den

\* Reader.bounds: the extent of the dataset, from its transform and shape.
dataset_bounds(tif) ==
    LET t == tif.transform IN
    [left |-> t.ul_lon * UnitsPerDegree,
     right |-> t.ul_lon * UnitsPerDegree + tif.width * CellSpan(t.px_w),
     top |-> t.ul_lat * UnitsPerDegree,
     bottom |-> t.ul_lat * UnitsPerDegree - tif.height * CellSpan(t.px_h)]

\* dataset.index(lon, lat): the cell holding the position lon/den, lat/den
dataset_index(tif, lon, lat, den) ==
    LET b == dataset_bounds(tif) IN
    [row |-> (b.top * den - lat) \div (CellSpan(tif.transform.px_h) * den),
     col |-> (lon - b.left * den) \div (CellSpan(tif.transform.px_w) * den)]

in_bounds(tif, lon, lat, den) ==
    LET b == dataset_bounds(tif) IN
    /\ b.left * den < lon /\ lon < b.right * den
    /\ b.bottom * den < lat /\ lat < b.top * den

\* Reader.point(lon, lat): PointOutsideBounds unless the position is strictly
\* inside the dataset bounds, else the raw value of the cell holding it.
point(tif, lon, lat, den) ==
    IF ~in_bounds(tif, lon, lat, den)
    THEN [raised |-> TRUE, error |-> "PointOutsideBounds"]
    ELSE LET rc == dataset_index(tif, lon, lat, den) IN
         [raised |-> FALSE, data |-> reshape_cell(tif, rc.row, rc.col)]

\* profile(lat1, lon1, lat2, lon2, step_m); req is the query.  An exception
\* of the handler is the framework's 500 response.
profile(tif, req) ==
    LET total == haversine_m(req.lat1, req.lon1, req.lat2, req.lon2) IN
    IF req.step_m = 0
    THEN [kind |-> "profile", req |-> req, status |-> 500,
          error |-> "ZeroDivisionError"]
    ELSE
    LET n == point_count(total, req.step_m)
        lats == linspace(req.lat1, req.lat2, n)
        lons == linspace(req.lon1, req.lon2, n)
        pts == [i \in 1 .. n |-> point(tif, lons[i], lats[i], n - 1)]
    IN  IF \E i \in 1 .. n : pts[i].raised
        THEN [kind |-> "profile", req |-> req, status |-> 500,
              error |-> "PointOutsideBounds"]
        ELSE [kind |-> "profile", req |-> req, status |-> 200,
              total_m |-> total, step_m |-> req.step_m, den |-> n - 1,
              points |-> [i \in 1 .. n |->
                             [lat |-> lats[i], lon |-> lons[i],
                              elev_m |-> elev_of(pts[i].data)]]]

\* Rows of the Web-Mercator tile matrix the requests reach: <<zoom, k,
\* latitude of the parallel between tile rows k - 1 and k>>, the latitude
\* atan(sinh(pi - 2 pi k / 2^zoom)) rounded to the model's unit.
MercatorParallels ==
    {<<0, 0, 612368>>, <<0, 1, -612368>>,
     <<1, 0, 612368>>, <<1, 1, 0>>, <<1, 2, -612368>>,
     <<8, 93, 317431>>, <<8, 94, 310096>>, <<8, 95, 302637>>, <<8, 96, 295055>>}

TileRequests ==
    {<<0, 0, 0>>} \cup ({1} \X (0 .. 1) \X (0 .. 1)) \cup ({8} \X (160 .. 161) \X (93 .. 95))

tile_lat(z, k) == (CHOOSE t \in MercatorParallels : t[1] = z /\ t[2] = k)[3]

tile_lon(z, k) == (360 * UnitsPerDegree * k) \div (2 ^ z) - 180 * UnitsPerDegree

\* tms.bounds(Tile(x, y, z))
tile_bounds(z, x, y) ==
    [left |-> tile_lon(z, x), right |-> tile_lon(z, x + 1),
     top |-> tile_lat(z, y), bottom |-> tile_lat(z, y + 1)]

\* Reader.tile_exists: the tile and the dataset bounds overlap
tile_exists(tif, z, x, y) ==
    LET t == tile_bounds(z, x, y)
        b == dataset_bounds(tif)
    IN  /\ t.left < b.right /\ t.right > b.left
        /\ t.top > b.bottom /\ t.bottom < b.top

\* The tile pixels the model inspects, per axis
Probes == {(i * (TILESIZE - 1)) \div (ProbesPerAxis - 1) : i \in 0 .. (ProbesPerAxis - 1)}

\* The centre of tile pixel (r, c) over the denominator 2 * TILESIZE; the
\* latitude is interpolated linearly between the tile's two parallels.
pixel_lon(t, c) == t.left * 2 * TILESIZE + (2 * c + 1) * (t.right - t.left)
pixel_lat(t, r) == t.top * 2 * TILESIZE - (2 * r + 1) * (t.top - t.bottom)

covers(tif, lon, lat, den) ==
    LET b == dataset_bounds(tif) IN
    /\ b.left * den <= lon /\ lon < b.right * den
    /\ b.bottom * den < lat /\ lat <= b.top * den

\* The cell of the band below the cell holding (lon, lat) or right of it;
\* with the cell itself and the one diagonal to it, the four cells a
\* bilinear kernel reads around the position.
kernel_cells(tif, lon, lat, den) ==
    LET b == dataset_bounds(tif)
        sx == CellSpan(tif.transform.px_w) * den
        sy == CellSpan(tif.transform.px_h) * den
        c0 == (2 * (lon - b.left * den) - sx) \div (2 * sx)
        r0 == (2 * (b.top * den - lat) - sy) \div (2 * sy)
    IN  {rc \in {r0, r0 + 1} \X {c0, c0 + 1} :
            /\ rc[1] \in 0 .. (tif.height - 1)
            /\ rc[2] \in 0 .. (tif.width - 1)}

\* mutant of resample: resampling_method="bilinear", the four cells averaged
resample_bilinear(tif, lon, lat, den) ==
    IF ~covers(tif, lon, lat, den)
    THEN [data |-> tif.nodata, mask |-> FALSE]
    ELSE LET cells == kernel_cells(tif, lon, lat, den)
             rc == dataset_index(tif, lon, lat, den)
             other == CHOOSE k \in cells : \A j \in cells : 
                          (j[1] - rc.row) * (j[1] - rc.row) + (j[2] - rc.col) * (j[2] - rc.col)
                          <= (k[1] - rc.row) * (k[1] - rc.row) + (k[2] - rc.col) * (k[2] - rc.col)
         IN  IF \E k \in cells : reshape_cell(tif, k[1], k[2]) = tif.nodata
             THEN [data |-> tif.nodata, mask |-> FALSE]
             ELSE [data |-> (reshape_cell(tif, rc.row, rc.col)
                             + reshape_cell(tif, other[1], other[2])) \div 2,
                   mask |-> TRUE]

\* The warp of Reader.tile with its default resampling_method="nearest": an
\* output pixel takes the cell holding its centre and is masked when that
\* cell holds the nodata value or the centre is off the dataset.
resample(tif, lon, lat, den) ==
    IF ~covers(tif, lon, lat, den)
    THEN [data |-> tif.nodata, mask |-> FALSE]
    ELSE LET rc == dataset_index(tif, lon, lat, den)
             v == reshape_cell(tif, rc.row, rc.col)
         IN  [data |-> v, mask |-> v # tif.nodata]

\* tile(z, x, y); req is <<z, x, y>>.  The response carries img.data and
\* img.mask as handed to render, at the inspected pixels <<r, c>>.
tile(tif, req) ==
    IF ~tile_exists(tif, req[1], req[2], req[3])
    THEN [kind |-> "tile", req |-> req, status |-> 500,
          error |-> "TileOutsideBounds"]
    ELSE LET t == tile_bounds(req[1], req[2], req[3])
             px == [p \in Probes \X Probes |->
                       resample(tif, pixel_lon(t, p[2]), pixel_lat(t, p[1]),
                                2 * TILESIZE)]
         IN  [kind |-> "tile", req |-> req, status |-> 200,
              data |-> [p \in Probes \X Probes |-> px[p].data],
              mask |-> [p \in Probes \X Probes |-> px[p].mask]]

(***************************************************************************)
(* Inputs of the converter                                                 *)
(***************************************************************************)
ConvLats == {-80, -55, 0, 42, 65, 75}
ConvLons == {-120, 45}
Stripes == {<<100, 100>>, <<NODATA, 100>>, <<0, NODATA>>}
RawDatas == [split : {(ROWS \div 2) * ROWS}, north : Stripes, south : Stripes]
ConvDatas == {d \in RawDatas : d.north = <<100, 100>> /\ d.south # <<0, NODATA>>}

RawSizes(lat) ==
    {0} \cup {2 * ROWS * cols_for_lat(lat) + d : d \in (-MaxSlack) .. MaxSlack}

RawFiles ==
    UNION {[lat : {la}, lon : ConvLons, nbytes : RawSizes(la), data : ConvDatas]
           : la \in ConvLats}

(***************************************************************************)
(* Specification of the geometry resolver                                  *)
(***************************************************************************)
InitGeometry ==
    /\ lat_arg = 0
    /\ cols_ret = NotCalled
    /\ raw = [lat |-> 0, lon |-> 0, nbytes |-> 0, data |-> CHOOSE d \in ConvDatas : TRUE]
    /\ outDir = FALSE
    /\ outTif = NoFile
    /\ convResult = NotRun
    /\ tiff = NoFile
    /\ response = NoResponse

ColumnsFor(lat) ==
    /\ lat_arg' = lat
    /\ cols_ret' = [called |-> TRUE, value |-> cols_for_lat(lat)]
    /\ UNCHANGED <<raw, outDir, outTif, convResult, tiff, response>>

NextGeometry == \E lat \in (-MaxLat) .. MaxLat : ColumnsFor(lat)

SpecGeometry == InitGeometry /\ [][NextGeometry]_vars

(***************************************************************************)
(* Specification of the converter                                          *)
(***************************************************************************)
InitConvert ==
    /\ lat_arg = 0
    /\ cols_ret = NotCalled
    /\ raw \in RawFiles
    /\ outDir \in BOOLEAN
    /\ outTif = NoFile
    /\ convResult = NotRun
    /\ tiff = NoFile
    /\ response = NoResponse

\* python convert_one_tile.py: one run of convert_tile(raw_file, out_file)
ConvertTile ==
    /\ convResult = NotRun
    /\ LET r == convert_tile(raw, outDir, outTif) IN
        /\ convResult' = r.result
        /\ outDir' = r.dir
        /\ outTif' = r.tif
    /\ UNCHANGED <<lat_arg, cols_ret, raw, tiff, response>>

\* the operator points the script at another raw file
PutRaw(f) ==
    /\ convResult # NotRun
    /\ raw' = f
    /\ convResult' = NotRun
    /\ UNCHANGED <<lat_arg, cols_ret, outDir, outTif, tiff, response>>

NextConvert == ConvertTile \/ \E f \in RawFiles : PutRaw(f)

SpecConvert == InitConvert /\ [][NextConvert]_vars

(***************************************************************************)
(* Specification of the service                                            *)
(***************************************************************************)
\* The GeoTIFF at TIFF_PATH is what convert_tile wrote for raw\42_45.
ServedTiffs ==
    {decode([lat |-> TIFF_LAT, lon |-> TIFF_LON,
             nbytes |-> 2 * ROWS * cols_for_lat(TIFF_LAT), data |-> d]).tif
     : d \in RawDatas}

ProfileRequests ==
    [lat1 : EndLats, lon1 : EndLons, lat2 : EndLats, lon2 : EndLons, step_m : Steps]

RequestedPoints(req) ==
    point_count(haversine_m(req.lat1, req.lon1, req.lat2, req.lon2), req.step_m)

InitService ==
    /\ lat_arg = 0
    /\ cols_ret = NotCalled
    /\ raw = [lat |-> 0, lon |-> 0, nbytes |-> 0, data |-> CHOOSE d \in ConvDatas : TRUE]
    /\ outDir = FALSE
    /\ outTif = NoFile
    /\ convResult = NotRun
    /\ tiff \in ServedTiffs
    /\ response = NoResponse

\* GET /profile
Profile(req) ==
    /\ response = NoResponse
    /\ IF req.step_m = 0 THEN TRUE ELSE RequestedPoints(req) <= MaxPoints
    /\ response' = profile(tiff, req)
    /\ UNCHANGED <<lat_arg, cols_ret, raw, outDir, outTif, convResult, tiff>>

\* GET /tiles/{z}/{x}/{y}.png
Tile(req) ==
    /\ response = NoResponse
    /\ response' = tile(tiff, req)
    /\ UNCHANGED <<lat_arg, cols_ret, raw, outDir, outTif, convResult, tiff>>

\* the response leaves the service
Deliver ==
    /\ response # NoResponse
    /\ response' = NoResponse
    /\ UNCHANGED <<lat_arg, cols_ret, raw, outDir, outTif, convResult, tiff>>

NextService ==
    \/ \E req \in ProfileRequests : Profile(req)
    \/ \E req \in TileRequests : Tile(req)
    \/ Deliver

SpecService == InitService /\ [][NextService]_vars

(***************************************************************************)
(* Properties                                                              *)
(***************************************************************************)

\* The column-count table: columns by absolute lower-left latitude a
TableColumns(a) ==
    CASE a < 50 -> 3600
      [] a >= 50 /\ a < 60 -> 2400
      [] a >= 60 /\ a < 70 -> 1800
      [] a >= 70 /\ a < 80 -> 1200
      [] a >= 80 -> 720

\* The number of 16-bit samples of the raw file, and the number its tile
\* key calls for
RawSamples == raw.nbytes \div 2
RawExpected == 3600 * TableColumns(Abs(raw.lat))

\* C1: for every integer lower-left latitude, positive, zero or negative,
\* columns_for returns a value, and the value is the table's for
\* a = |latitude|: 3600 below 50, 2400 in [50, 60), 1800 in [60, 70), 1200 in
\* [70, 80), 720 from 80 on.
C1_ColumnsFollowTable ==
    cols_ret.called =>
        /\ cols_ret.value \in Nat
        /\ cols_ret.value = TableColumns(Abs(lat_arg))

\* a negative latitude on a threshold
C1_Witness == cols_ret.called /\ lat_arg = -50 /\ cols_ret.value = 2400

\* C2: decoding fails exactly when the number of 16-bit samples of the buffer
\* differs from 3600 * columns_for(lower-left latitude), and the error
\* reports the actual count, the expected count and the tile key.
C2_FailsIffCountDiffers ==
    convResult.run =>
        /\ convResult.raised <=> (RawSamples # RawExpected)
        /\ convResult.raised =>
              /\ convResult.error.size = RawSamples
              /\ convResult.error.expected = RawExpected
              /\ convResult.error.path = <<raw.lat, raw.lon>>

\* a buffer one sample too long is refused
C2_Witness ==
    /\ convResult.run /\ convResult.raised
    /\ RawSamples = RawExpected + 1
    /\ convResult.error.size = convResult.error.expected + 1

\* C8: a buffer that decodes gives a raster of 3600 rows and
\* columns_for(lat_ll) columns whose transform has upper-left longitude lon_ll,
\* upper-left latitude lat_ll + 1, pixel width 1 / columns and pixel height
\* 1 / 3600: the raster spans one degree each way.
C8_RasterSpansOneDegree ==
    (convResult.run /\ ~convResult.raised) =>
        /\ outTif.exists
        /\ outTif.height = 3600
        /\ outTif.width = TableColumns(Abs(raw.lat))
        /\ outTif.transform.ul_lon = raw.lon
        /\ outTif.transform.ul_lat = raw.lat + 1
        /\ outTif.transform.px_w = [num |-> 1, den |-> TableColumns(Abs(raw.lat))]
        /\ outTif.transform.px_h = [num |-> 1, den |-> 3600]
        /\ outTif.width * outTif.transform.px_w.num = outTif.transform.px_w.den
        /\ outTif.height * outTif.transform.px_h.num = outTif.transform.px_h.den

\* a tile of the southern hemisphere in the 2400-column band
C8_Witness ==
    /\ convResult.run /\ ~convResult.raised
    /\ raw.lat = -55
    /\ outTif.width = 2400 /\ outTif.transform.ul_lat = -54

\* C10: when the sample count disagrees with the expected count, convert_tile
\* aborts before producing anything: no output directory is made, no output
\* raster is written and an existing output file stays as it was.
C10_AbortWritesNothing ==
    [][(~convResult.run /\ convResult'.run /\ RawSamples # RawExpected) =>
          /\ convResult'.raised
          /\ outDir' = outDir
          /\ outTif' = outTif]_vars

\* a refused run that found the output of an earlier run of another band
C10_Witness ==
    /\ convResult.run /\ convResult.raised
    /\ outTif.exists /\ outTif.width # TableColumns(Abs(raw.lat))

\* The request and the answer of a profile response
IsProfile == response.kind = "profile"
IsTile == response.kind = "tile"
Completed == response.status = 200

\* n = max(2, floor(total_distance / step_distance) + 1) for a step # 0
ClaimedCount(total, step) ==
    IF step > 0 THEN Max(2, (total \div step) + 1) ELSE 2

\* The raster's extent [lon_ll, lon_ll + 1) x [lat_ll, lat_ll + 1) in model
\* units, and whether the position lon/den, lat/den lies in it
ExtentWest == TIFF_LON * UnitsPerDegree
ExtentEast == (TIFF_LON + 1) * UnitsPerDegree
ExtentSouth == TIFF_LAT * UnitsPerDegree
ExtentNorth == (TIFF_LAT + 1) * UnitsPerDegree

InExtent(lon, lat, den) ==
    /\ ExtentWest * den <= lon /\ lon < ExtentEast * den
    /\ ExtentSouth * den <= lat /\ lat < ExtentNorth * den

\* The raw value of the cell nearest to a position of the extent: row
\* (ul_lat - lat) / px_h and column (lon - ul_lon) / px_w, rounded down
NearestCell(lon, lat, den) ==
    LET row == (ExtentNorth * den - lat) \div ((UnitsPerDegree \div tiff.height) * den)
        col == (lon - ExtentWest * den) \div ((UnitsPerDegree \div tiff.width) * den)
    IN  fromfile_item(tiff.data, row * tiff.width + col)

\* Point i of the n evenly spaced points of a request, over n - 1
GeneratedLat(req, n, i) == req.lat1 * (n - 1) + (i - 1) * (req.lat2 - req.lat1)
GeneratedLon(req, n, i) == req.lon1 * (n - 1) + (i - 1) * (req.lon2 - req.lon1)

\* C3: every profile request, whatever its endpoints and step, completes and
\* returns n = max(2, floor(total_distance / step_distance) + 1) points; a
\* zero-length path returns 2 points and total_m = 0.
C3_EveryRequestReturnsCount ==
    IsProfile =>
        /\ Completed
        /\ response.req.step_m # 0 =>
              Len(response.points) = ClaimedCount(response.total_m, response.req.step_m)
        /\ (response.req.lat1 = response.req.lat2 /\ response.req.lon1 = response.req.lon2) =>
              (Len(response.points) = 2 /\ response.total_m = 0)

\* C4: a generated point outside the raster's one-degree extent yields an
\* entry with an absent elevation; the request is not aborted and the other
\* points' entries are returned.
C4_OutsidePointIsAbsent ==
    (IsProfile /\ response.req.step_m # 0) =>
        LET req == response.req
            n == ClaimedCount(haversine_m(req.lat1, req.lon1, req.lat2, req.lon2),
                              req.step_m)
            outside == {i \in 1 .. n :
                          ~InExtent(GeneratedLon(req, n, i), GeneratedLat(req, n, i), n - 1)}
        IN  outside # {} =>
                /\ Completed
                /\ Len(response.points) = n
                /\ \A i \in outside : response.points[i].elev_m = Null

\* A tile that shares no area with the raster's extent
TileOutsideExtent(req) ==
    LET t == tile_bounds(req[1], req[2], req[3]) IN
    \/ t.right <= ExtentWest \/ t.left >= ExtentEast
    \/ t.top <= ExtentSouth \/ t.bottom >= ExtentNorth

\* C5: rendering a pyramid tile wholly outside the raster's extent is not an
\* error: the result's validity mask is false at every pixel.
C5_OutsideTileIsEmpty ==
    (IsTile /\ TileOutsideExtent(response.req)) =>
        /\ Completed
        /\ \A p \in DOMAIN response.mask : response.mask[p] = FALSE

\* C6: the points of a profile are in generation order from endpoint 1 to
\* endpoint 2 inclusive: the first entry is at (lat1, lon1), the last at
\* (lat2, lon2), entry i holds point i with the elevation sampled at point i,
\* and none is reordered, merged or dropped, absent elevations included.
C6_PointsInGenerationOrder ==
    (IsProfile /\ Completed) =>
        LET req == response.req
            pts == response.points
            n == Len(pts)
        IN  /\ n = ClaimedCount(response.total_m, req.step_m)
            /\ response.den = n - 1
            /\ pts[1].lat = req.lat1 * response.den /\ pts[1].lon = req.lon1 * response.den
            /\ pts[n].lat = req.lat2 * response.den /\ pts[n].lon = req.lon2 * response.den
            /\ \A i \in 1 .. n :
                  /\ pts[i].lat = GeneratedLat(req, n, i)
                  /\ pts[i].lon = GeneratedLon(req, n, i)
                  /\ pts[i].elev_m \in
                        {Null, Some(NearestCell(pts[i].lon, pts[i].lat, response.den))}

\* four distinct points, absent and present elevations among them
C6_Witness ==
    /\ IsProfile /\ Completed
    /\ Len(response.points) = 4
    /\ response.req.lat1 # response.req.lat2 /\ response.req.lon1 # response.req.lon2
    /\ response.points[2].elev_m = Null
    /\ response.points[3].elev_m # Null
    /\ response.points[2].lat # response.points[3].lat

\* C7: a point's elevation is absent exactly when the nearest-neighbour cell
\* holds the nodata sentinel -9999 and is that cell's raw value otherwise: a
\* nodata cell is never a number, a valid cell (0 included) is never absent.
C7_AbsentIffNodata ==
    (IsProfile /\ Completed) =>
        \A i \in 1 .. Len(response.points) :
            LET e == response.points[i]
                v == NearestCell(e.lon, e.lat, response.den)
            IN  /\ e.elev_m = Null <=> v = -9999
                /\ v # -9999 => e.elev_m = Some(v)

\* a nodata cell and a valid cell of value 0 in one answer
C7_Witness ==
    /\ IsProfile /\ Completed
    /\ \E i, j \in 1 .. Len(response.points) :
          /\ response.points[i].elev_m = Null
          /\ NearestCell(response.points[i].lon, response.points[i].lat, response.den) = -9999
          /\ response.points[j].elev_m = Some(0)

\* The centre of the inspected pixel p = <<r, c>> of the answered tile
PixelLon(p) == pixel_lon(tile_bounds(response.req[1], response.req[2], response.req[3]), p[2])
PixelLat(p) == pixel_lat(tile_bounds(response.req[1], response.req[2], response.req[3]), p[1])
PixelInExtent(p) == covers(tiff, PixelLon(p), PixelLat(p), 2 * TILESIZE)

\* Whether one of the four cells around the centre of pixel p holds -9999
NodataAround(p) ==
    /\ PixelInExtent(p)
    /\ \E k \in kernel_cells(tiff, PixelLon(p), PixelLat(p), 2 * TILESIZE) :
          fromfile_item(tiff.data, k[1] * tiff.width + k[2]) = -9999

====
